---- MODULE Spec2Model ----
(***************************************************************************)
(* Buy-now and cancel-listing flows of the NFT page                        *)
(* (src/pages/nfts/[address].tsx): the two async handlers                  *)
(* buyNftTransaction and cancelListingTransaction, the page values they    *)
(* close over (wallet, query data, listing, isOwner) and the collaborators *)
(* they await (wallet signing, RPC connection, Apollo refetch, toasts).    *)
(***************************************************************************)
EXTENDS Integers, Sequences, FiniteSets, TLC

(***************************************************************************)
(* Bounds                                                                  *)
(***************************************************************************)
\* longest creator list of an NFT snapshot
MaxCreators == 2

(***************************************************************************)
(* Values.  Public keys, base58 strings, derived addresses, bumps and      *)
(* undefined/null all share one record shape so that any two can be        *)
(* compared.                                                               *)
(***************************************************************************)
Val(role, seeds, n) == [role |-> role, seeds |-> seeds, n |-> n]

\* JavaScript undefined (data?.x on missing data, find() without a match)
Undefined == Val("undefined", <<>>, 0)
\* JavaScript null (publicKey of a disconnected wallet)
Null == Val("null", <<>>, 0)

\* a PublicKey object of an ordinary account
Key(n) == Val("key", <<>>, n)
\* PublicKey.toBase58(): the string form of a key
ToBase58(k) == Val("b58", <<k>>, 0)
\* new PublicKey(string)
NewPublicKey(s) == s.seeds[1]
\* a u64 seed (price, token size)
U64(n) == Val("u64", <<>>, n)

\* program ids and sysvars
AuctionHouseProgramId == Key(40)
SYSVAR_INSTRUCTIONS_PUBKEY == Key(41)
MetadataProgramId == Key(42)
TokenProgramId == Key(43)

\* findProgramAddress: <<address, bump>>, both functions of (program, role, seeds)
FindProgramAddress(role, seeds) ==
  LET address == Val(role, seeds, 0)
  IN  <<address, Val("bump", <<address>>, 0)>>

findMetadataAccount(tokenMint) ==
  FindProgramAddress("metadata", <<MetadataProgramId, tokenMint>>)
findEscrowPaymentAccountAddress(auctionHouse, wallet) ==
  FindProgramAddress("escrow", <<auctionHouse, wallet>>)
findTradeStateAddress(wallet, auctionHouse, tokenAccount, treasuryMint, tokenMint, price, tokenSize) ==
  FindProgramAddress("tradeState",
    <<wallet, auctionHouse, tokenAccount, treasuryMint, tokenMint, U64(price), U64(tokenSize)>>)
findPublicBidTradeStateAddress(wallet, auctionHouse, treasuryMint, tokenMint, price, tokenSize) ==
  FindProgramAddress("tradeState",
    <<wallet, auctionHouse, treasuryMint, tokenMint, U64(price), U64(tokenSize)>>)
findAuctionHouseProgramAsSignerAddress ==
  FindProgramAddress("programAsSigner", <<AuctionHouseProgramId>>)
findAssociatedTokenAccountAddress(mint, wallet) ==
  FindProgramAddress("ata", <<wallet, TokenProgramId, mint>>)
findBidReceiptAddress(tradeState) ==
  FindProgramAddress("bidReceipt", <<tradeState>>)
findPurchaseReceiptAddress(sellerTradeState, buyerTradeState) ==
  FindProgramAddress("purchaseReceipt", <<sellerTradeState, buyerTradeState>>)

(***************************************************************************)
(* Page props and query data                                               *)
(***************************************************************************)
\* the people of the model: 1 is the holder of the browser wallet
Viewer == Key(1)
Other == Key(2)
People == {Viewer, Other}

\* listing price in the smallest currency unit
Price == 25

OtherAuctionHouse == Key(11)
TokenMint == Key(20)
Creator(i) == Key(30 + i)

\* the marketplace prop (getServerSideProps), fixed for the page session
marketplace ==
  [auctionHouse |->
    [address |-> ToBase58(Key(10)),
     authority |-> ToBase58(Key(12)),
     auctionHouseFeeAccount |-> ToBase58(Key(13)),
     treasuryMint |-> ToBase58(Key(14)),
     auctionHouseTreasury |-> ToBase58(Key(15))]]

\* a listing record of GET_NFT, as the indexer reports it for a listing that
\* seller made at Price on auction house ah
MkListing(ah, seller) ==
  LET tokenAccount == findAssociatedTokenAccountAddress(TokenMint, seller)[1]
      tradeState == findTradeStateAddress(seller, ah, tokenAccount,
                      NewPublicKey(marketplace.auctionHouse.treasuryMint),
                      TokenMint, Price, 1)
  IN  [address |-> ToBase58(FindProgramAddress("listingReceipt", <<tradeState[1]>>)[1]),
       auctionHouse |-> ToBase58(ah),
       seller |-> ToBase58(seller),
       price |-> Price,
       tradeState |-> ToBase58(tradeState[1]),
       tradeStateBump |-> tradeState[2]]

\* the marketplace's auction house as a key
MarketAuctionHouse == NewPublicKey(marketplace.auctionHouse.address)

CreatorLists == { [i \in 1..k |-> [address |-> ToBase58(Creator(i))]] : k \in 0..MaxCreators }

\* data of useQuery(GET_NFT): undefined until the first result
NoData == [loaded |-> FALSE]
MkData(owner, creators, listings) ==
  [loaded |-> TRUE,
   nft |-> [mintAddress |-> ToBase58(TokenMint),
            owner |-> [address |-> ToBase58(owner),
                       associatedTokenAccountAddress |->
                         ToBase58(findAssociatedTokenAccountAddress(TokenMint, owner)[1])],
            creators |-> creators,
            listings |-> listings]]

\* the listings arrays of the model: none; one listing, of another
\* marketplace, of this one by somebody else, of this one by the viewer; and
\* two listings, where find() has to skip the first or to prefer it
ListingArrays ==
  { <<>>,
    <<MkListing(OtherAuctionHouse, Other)>>,
    <<MkListing(MarketAuctionHouse, Other)>>,
    <<MkListing(MarketAuctionHouse, Viewer)>>,
    <<MkListing(OtherAuctionHouse, Other), MkListing(MarketAuctionHouse, Viewer)>>,
    <<MkListing(MarketAuctionHouse, Other), MkListing(MarketAuctionHouse, Viewer)>> }

Snapshots ==
  { MkData(o, c, l) : o \in People, c \in CreatorLists, l \in ListingArrays }

\* the results the query may deliver after d: any snapshot of the same mint,
\* whose creator list does not change during the session
Results(d) ==
  IF d.loaded
  THEN { MkData(o, d.nft.creators, l) : o \in People, l \in ListingArrays }
  ELSE Snapshots

(***************************************************************************)
(* Values the component derives on each render                             *)
(***************************************************************************)
\* data?.nft.owner.address
OwnerAddress(d) == IF d.loaded THEN d.nft.owner.address ELSE Undefined
\* publicKey?.toBase58()
WalletAddress(pk) == IF pk = Null THEN Undefined ELSE ToBase58(pk)

\* isOwner: equals(data?.nft.owner.address, publicKey?.toBase58()) || null,
\* as a truth value
isOwner(d, pk) == OwnerAddress(d) = WalletAddress(pk)

\* pipe(pickAuctionHouse, isMarketplaceAuctionHouse)
isMarketplaceAuctionHouse(l) == l.auctionHouse = marketplace.auctionHouse.address

\* find(pred)(data?.nft.listings || []): the first match, or undefined
pickListing(d) ==
  LET ls == IF d.loaded THEN d.nft.listings ELSE <<>>
      hits == { i \in 1..Len(ls) : isMarketplaceAuctionHouse(ls[i]) }
  IN  IF hits = {} THEN Undefined
      ELSE ls[CHOOSE i \in hits : \A j \in hits : i <= j]

(***************************************************************************)
(* Instructions.  The create*Instruction helpers of the auction-house      *)
(* library turn an accounts object and an args object into                 *)
(* (programId, keys, data); the page sees the result as opaque, so keys    *)
(* are the given accounts in the order the page lists them and data is the *)
(* instruction's name with the given args.                                 *)
(***************************************************************************)
AccountMeta(pubkey, isSigner, isWritable) ==
  [pubkey |-> pubkey, isSigner |-> isSigner, isWritable |-> isWritable]

LibKeys(accounts) == [i \in 1..Len(accounts) |-> AccountMeta(accounts[i], FALSE, FALSE)]

TransactionInstruction(programId, keys, data) ==
  [programId |-> programId, keys |-> keys, data |-> data]

createPublicBuyInstruction(accounts, args) ==
  TransactionInstruction(AuctionHouseProgramId, LibKeys(accounts),
                         [instruction |-> "publicBuy", args |-> args])
createPrintBidReceiptInstruction(accounts, args) ==
  TransactionInstruction(AuctionHouseProgramId, LibKeys(accounts),
                         [instruction |-> "printBidReceipt", args |-> args])
createExecuteSaleInstruction(accounts, args) ==
  TransactionInstruction(AuctionHouseProgramId, LibKeys(accounts),
                         [instruction |-> "executeSale", args |-> args])
createPrintPurchaseReceiptInstruction(accounts, args) ==
  TransactionInstruction(AuctionHouseProgramId, LibKeys(accounts),
                         [instruction |-> "printPurchaseReceipt", args |-> args])
createCancelInstruction(accounts, args) ==
  TransactionInstruction(AuctionHouseProgramId, LibKeys(accounts),
                         [instruction |-> "cancel", args |-> args])
createCancelListingReceiptInstruction(accounts) ==
  TransactionInstruction(AuctionHouseProgramId, LibKeys(accounts),
                         [instruction |-> "cancelListingReceipt", args |-> [none |-> 0]])

\* the creator accounts appended to execute-sale: one writable non-signer per creator
creatorKeys(creators) ==
  [i \in 1..Len(creators) |-> AccountMeta(NewPublicKey(creators[i].address), FALSE, TRUE)]

\* executeSaleWithCreators that appends the creators as read-only accounts
executeSaleWithCreators_readonly(executeSaleInstruction, creators) ==
  TransactionInstruction(AuctionHouseProgramId,
                         executeSaleInstruction.keys \o
                           [i \in 1..Len(creators) |->
                              AccountMeta(NewPublicKey(creators[i].address), FALSE, FALSE)],
                         executeSaleInstruction.data)

\* the execute-sale instruction that is added to the transaction
executeSaleWithCreators(executeSaleInstruction, creators) ==
  TransactionInstruction(AuctionHouseProgramId,
                         executeSaleInstruction.keys \o creatorKeys(creators),
                         executeSaleInstruction.data)

\* buyAdd with execute-sale added before print-bid-receipt
buyAdd_reordered(publicBuy, printBidReceipt, executeSale, printPurchaseReceipt) ==
  <<publicBuy, executeSale, printBidReceipt, printPurchaseReceipt>>

\* txt.add(a).add(b).add(c).add(d)
buyAdd(publicBuy, printBidReceipt, executeSale, printPurchaseReceipt) ==
  <<publicBuy, printBidReceipt, executeSale, printPurchaseReceipt>>

\* cancelAdd with the receipt instruction added first
cancelAdd_reordered(cancel, cancelListingReceipt) == <<cancelListingReceipt, cancel>>

\* txt.add(a).add(b)
cancelAdd(cancel, cancelListingReceipt) == <<cancel, cancelListingReceipt>>

\* the addresses and bumps buyNftTransaction derives for (publicKey, data, listing)
buyDerived(publicKey, d, listing) ==
  LET auctionHouse == NewPublicKey(marketplace.auctionHouse.address)
      treasuryMint == NewPublicKey(marketplace.auctionHouse.treasuryMint)
      seller == NewPublicKey(listing.seller)
      tokenMint == NewPublicKey(d.nft.mintAddress)
      sellerTradeState == NewPublicKey(listing.tradeState)
      buyerPrice == listing.price
      tokenAccount == NewPublicKey(d.nft.owner.associatedTokenAccountAddress)
      buyerTradeState == findPublicBidTradeStateAddress(publicKey, auctionHouse,
                            treasuryMint, tokenMint, buyerPrice, 1)
  IN  [metadata |-> findMetadataAccount(tokenMint),
       escrowPaymentAccount |-> findEscrowPaymentAccountAddress(auctionHouse, publicKey),
       buyerTradeState |-> buyerTradeState,
       freeTradeState |-> findTradeStateAddress(seller, auctionHouse, tokenAccount,
                            treasuryMint, tokenMint, 0, 1),
       programAsSigner |-> findAuctionHouseProgramAsSignerAddress,
       buyerReceiptTokenAccount |-> findAssociatedTokenAccountAddress(tokenMint, publicKey),
       bidReceipt |-> findBidReceiptAddress(buyerTradeState[1]),
       purchaseReceipt |-> findPurchaseReceiptAddress(sellerTradeState, buyerTradeState[1])]

\* the base execute-sale instruction of buyNftTransaction
buyExecuteSaleInstruction(publicKey, d, listing) ==
  LET pda == buyDerived(publicKey, d, listing)
      authority == NewPublicKey(marketplace.auctionHouse.authority)
      auctionHouse == NewPublicKey(marketplace.auctionHouse.address)
      auctionHouseFeeAccount == NewPublicKey(marketplace.auctionHouse.auctionHouseFeeAccount)
      treasuryMint == NewPublicKey(marketplace.auctionHouse.treasuryMint)
      auctionHouseTreasury == NewPublicKey(marketplace.auctionHouse.auctionHouseTreasury)
      seller == NewPublicKey(listing.seller)
      sellerPaymentReceiptAccount == NewPublicKey(listing.seller)
      tokenMint == NewPublicKey(d.nft.mintAddress)
      sellerTradeState == NewPublicKey(listing.tradeState)
      tokenAccount == NewPublicKey(d.nft.owner.associatedTokenAccountAddress)
  IN  createExecuteSaleInstruction(
        <<publicKey, seller, tokenAccount, tokenMint, pda.metadata[1], treasuryMint,
          pda.escrowPaymentAccount[1], sellerPaymentReceiptAccount,
          pda.buyerReceiptTokenAccount[1], authority, auctionHouse,
          auctionHouseFeeAccount, auctionHouseTreasury, pda.buyerTradeState[1],
          sellerTradeState, pda.freeTradeState[1], pda.programAsSigner[1]>>,
        [escrowPaymentBump |-> pda.escrowPaymentAccount[2],
         freeTradeStateBump |-> pda.freeTradeState[2],
         programAsSignerBump |-> pda.programAsSigner[2],
         buyerPrice |-> listing.price,
         tokenSize |-> 1])

\* publicBuyInstructionArgs that takes the trade state bump stored with the listing
publicBuyInstructionArgs_listingBump(pda, listing) ==
  [tradeStateBump |-> listing.tradeStateBump,
   escrowPaymentBump |-> pda.escrowPaymentAccount[2],
   buyerPrice |-> listing.price,
   tokenSize |-> 1]

\* const publicBuyInstructionArgs = { tradeStateBump, escrowPaymentBump, buyerPrice, tokenSize: 1 }
publicBuyInstructionArgs(pda, listing) ==
  [tradeStateBump |-> pda.buyerTradeState[2],
   escrowPaymentBump |-> pda.escrowPaymentAccount[2],
   buyerPrice |-> listing.price,
   tokenSize |-> 1]

\* the instruction list of the transaction buyNftTransaction builds
buyInstructions(publicKey, d, listing) ==
  LET pda == buyDerived(publicKey, d, listing)
      authority == NewPublicKey(marketplace.auctionHouse.authority)
      auctionHouse == NewPublicKey(marketplace.auctionHouse.address)
      auctionHouseFeeAccount == NewPublicKey(marketplace.auctionHouse.auctionHouseFeeAccount)
      treasuryMint == NewPublicKey(marketplace.auctionHouse.treasuryMint)
      listingReceipt == NewPublicKey(listing.address)
      tokenAccount == NewPublicKey(d.nft.owner.associatedTokenAccountAddress)
      publicBuyInstruction ==
        createPublicBuyInstruction(
          <<publicKey, publicKey, publicKey, treasuryMint, tokenAccount, pda.metadata[1],
            pda.escrowPaymentAccount[1], authority, auctionHouse, auctionHouseFeeAccount,
            pda.buyerTradeState[1]>>,
          publicBuyInstructionArgs(pda, listing))
      printBidReceiptInstruction ==
        createPrintBidReceiptInstruction(
          <<publicKey, pda.bidReceipt[1], SYSVAR_INSTRUCTIONS_PUBKEY>>,
          [receiptBump |-> pda.bidReceipt[2]])
      printPurchaseReceiptInstruction ==
        createPrintPurchaseReceiptInstruction(
          <<publicKey, pda.purchaseReceipt[1], pda.bidReceipt[1], listingReceipt,
            SYSVAR_INSTRUCTIONS_PUBKEY>>,
          [purchaseReceiptBump |-> pda.purchaseReceipt[2]])
  IN  buyAdd(publicBuyInstruction,
             printBidReceiptInstruction,
             executeSaleWithCreators(buyExecuteSaleInstruction(publicKey, d, listing),
                                     d.nft.creators),
             printPurchaseReceiptInstruction)

\* the instruction list of the transaction cancelListingTransaction builds
cancelInstructions(publicKey, d, listing) ==
  LET auctionHouse == NewPublicKey(marketplace.auctionHouse.address)
      authority == NewPublicKey(marketplace.auctionHouse.authority)
      auctionHouseFeeAccount == NewPublicKey(marketplace.auctionHouse.auctionHouseFeeAccount)
      tokenMint == NewPublicKey(d.nft.mintAddress)
      treasuryMint == NewPublicKey(marketplace.auctionHouse.treasuryMint)
      receipt == NewPublicKey(listing.address)
      tokenAccount == NewPublicKey(d.nft.owner.associatedTokenAccountAddress)
      buyerPrice == listing.price
      tradeState == findTradeStateAddress(publicKey, auctionHouse, tokenAccount,
                      treasuryMint, tokenMint, buyerPrice, 1)[1]
      cancelInstruction ==
        createCancelInstruction(
          <<publicKey, tokenAccount, tokenMint, authority, auctionHouse,
            auctionHouseFeeAccount, tradeState>>,
          [buyerPrice |-> buyerPrice, tokenSize |-> 1])
      cancelListingReceiptInstruction ==
        createCancelListingReceiptInstruction(<<receipt, SYSVAR_INSTRUCTIONS_PUBKEY>>)
  IN  cancelAdd(cancelInstruction, cancelListingReceiptInstruction)

(***************************************************************************)
(* Collaborator outcomes                                                   *)
(***************************************************************************)
\* messages of the errors the wallet, the connection or the query may raise
Messages == {"e1", "e2"}
\* blockhashes getRecentBlockhash may return
Blockhashes == {"bh1", "bh2"}

Toast(type, message) == [type |-> type, message |-> message]

(***************************************************************************)
(* State                                                                   *)
(***************************************************************************)
\* publicKey: useWallet().publicKey, Null or the wallet's key
\* signTransaction: TRUE iff useWallet().signTransaction is defined
\* data: useQuery(GET_NFT).data
\* attempts: one record per invocation of a handler
VARIABLES publicKey, signTransaction, data, attempts

vars == <<publicKey, signTransaction, data, attempts>>

NoTxt == [instructions |-> <<>>, recentBlockhash |-> "", feePayer |-> Null]
NoCalls == [login |-> 0, getRecentBlockhash |-> 0, signTransaction |-> 0,
            sendRawTransaction |-> 0, confirmTransaction |-> 0, refetch |-> 0]

\* an invocation that has not happened yet
Idle ==
  [kind |-> "none",          \* "buy" or "cancel"
   pc |-> "idle",            \* where the handler stands
   ctx |-> [publicKey |-> Null, signTransaction |-> FALSE, data |-> NoData],
                             \* the render values the handler closed over
   txt |-> NoTxt,            \* the Transaction under construction
   signReq |-> NoTxt,        \* the transaction passed to signTransaction
   signed |-> FALSE,         \* the wallet returned a signed transaction
   signature |-> FALSE,      \* sendRawTransaction returned a transaction id
   confirmed |-> FALSE,      \* confirmTransaction resolved
   failedAt |-> "none",      \* the await that rejected
   error |-> "",             \* its error's message
   calls |-> NoCalls,        \* collaborator calls made by this invocation
   toasts |-> <<>>]          \* toasts raised by this invocation

\* the listing and the isOwner flag of the render an invocation closed over
ctxListing(att) == pickListing(att.ctx.data)
ctxIsOwner(att) == isOwner(att.ctx.data, att.ctx.publicKey)

Init ==
  /\ publicKey = Null
  /\ signTransaction = FALSE
  /\ data = NoData
  /\ attempts = [a \in {1} |-> Idle]

(***************************************************************************)
(* Guards of the handlers                                                  *)
(***************************************************************************)
\* walletUnavailable that looks at the account only
walletUnavailable_accountOnly(pk, sign) == pk = Null

\* if (!publicKey || !signTransaction)
walletUnavailable(pk, sign) == pk = Null \/ ~sign

\* buyAborts without the isOwner test
buyAborts_noOwnerTest(listing, owner, d) == listing = Undefined \/ ~d.loaded

\* if (!listing || isOwner || !data)
buyAborts(listing, owner, d) == listing = Undefined \/ owner \/ ~d.loaded

\* if (!listing || !isOwner || !data)
cancelAborts(listing, owner, d) == listing = Undefined \/ ~owner \/ ~d.loaded

\* the synchronous head of a handler: the guards, up to the first await
enter(kind, aborts) ==
  LET att == [Idle EXCEPT !.kind = kind,
                          !.ctx = [publicKey |-> publicKey,
                                   signTransaction |-> signTransaction,
                                   data |-> data]]
  IN  IF walletUnavailable(publicKey, signTransaction)
      THEN [att EXCEPT !.calls.login = @ + 1, !.pc = "login"]
      ELSE IF aborts
      THEN [att EXCEPT !.pc = "aborted"]
      ELSE [att EXCEPT !.pc = "deriving"]

(***************************************************************************)
(* Steps of the handlers, as functions of the invocation record            *)
(***************************************************************************)
\* the derivations are done, the instructions are added to the new
\* Transaction and getRecentBlockhash is called
built(att, instructions) ==
  [att EXCEPT !.txt.instructions = instructions,
              !.calls.getRecentBlockhash = @ + 1,
              !.pc = "blockhash"]

\* requestSignature that passes the transaction to the wallet before the fee
\* payer is set
requestSignature_beforeFeePayer(att, blockhash) ==
  [att EXCEPT !.txt = [att.txt EXCEPT !.recentBlockhash = blockhash,
                                      !.feePayer = att.ctx.publicKey],
              !.signReq = [att.txt EXCEPT !.recentBlockhash = blockhash],
              !.calls.signTransaction = @ + 1,
              !.pc = "signing"]

\* txt.recentBlockhash = ...; txt.feePayer = publicKey; signTransaction(txt)
requestSignature(att, blockhash) ==
  LET txt == [att.txt EXCEPT !.recentBlockhash = blockhash,
                             !.feePayer = att.ctx.publicKey]
  IN  [att EXCEPT !.txt = txt,
                  !.signReq = txt,
                  !.calls.signTransaction = @ + 1,
                  !.pc = "signing"]

\* getRecentBlockhash rejects: nothing catches it
blockhashRejected(att) == [att EXCEPT !.pc = "fault", !.failedAt = "blockhash"]

\* signed = await signTransaction(txt); toast(...); sendRawTransaction(signed.serialize())
signResolved(att) ==
  [att EXCEPT !.signed = TRUE,
              !.toasts = Append(@, Toast("info", "Sending the transaction to Solana.")),
              !.calls.sendRawTransaction = @ + 1,
              !.pc = "submitting"]

\* signRejected that asks the wallet again after the error toast
signRejected_retries(att, message) ==
  [att EXCEPT !.toasts = Append(@, Toast("error", message)),
              !.error = message,
              !.calls.signTransaction = @ + 1,
              !.pc = "signing"]

\* catch of the signing try: toast.error(e.message); return
signRejected(att, message) ==
  [att EXCEPT !.toasts = Append(@, Toast("error", message)),
              !.failedAt = "sign",
              !.error = message,
              !.pc = "SignFailed"]

\* sendResolved that takes the submission for the confirmation
sendResolved_noConfirmationWait(att) ==
  [att EXCEPT !.signature = TRUE,
              !.confirmed = TRUE,
              !.calls.refetch = @ + 1,
              !.pc = "refetching"]

\* signature = await sendRawTransaction(...); confirmTransaction(signature, 'confirmed')
sendResolved(att) ==
  [att EXCEPT !.signature = TRUE,
              !.calls.confirmTransaction = @ + 1,
              !.pc = "confirming"]

\* sendRejected with no catch around the call: the rejection leaves the handler
sendRejected_uncaught(att, message) ==
  [att EXCEPT !.failedAt = "submit",
              !.error = message,
              !.pc = "fault"]

\* catch of the second try, reached from sendRawTransaction
sendRejected(att, message) ==
  [att EXCEPT !.toasts = Append(@, Toast("error", message)),
              !.failedAt = "submit",
              !.error = message,
              !.pc = "SubmitFailed"]

\* await confirmTransaction(...) resolved; refetch()
confirmResolved(att) ==
  [att EXCEPT !.confirmed = TRUE,
              !.calls.refetch = @ + 1,
              !.pc = "refetching"]

\* confirmRejected that raises a fixed text and refetches
confirmRejected_refetches(att, message) ==
  [att EXCEPT !.toasts = Append(@, Toast("error", "The transaction failed.")),
              !.failedAt = "confirm",
              !.error = message,
              !.calls.refetch = @ + 1,
              !.pc = "SubmitFailed"]

\* catch of the second try, reached from confirmTransaction
confirmRejected(att, message) ==
  [att EXCEPT !.toasts = Append(@, Toast("error", message)),
              !.failedAt = "confirm",
              !.error = message,
              !.pc = "SubmitFailed"]

\* await refetch() resolved; toast.success(...)
refetchResolved(att) ==
  [att EXCEPT !.toasts = Append(@, Toast("success", "The transaction was confirmed.")),
              !.pc = "done"]

\* catch of the second try, reached from refetch
refetchRejected(att, message) ==
  [att EXCEPT !.toasts = Append(@, Toast("error", message)),
              !.failedAt = "refetch",
              !.error = message,
              !.pc = "done"]

(***************************************************************************)
(* Actions                                                                 *)
(***************************************************************************)
Set(a, att) == attempts' = [attempts EXCEPT ![a] = att]
Page == <<publicKey, signTransaction, data>>

\* invocations are numbered in the order in which they happen
NextInvocation(a) ==
  /\ attempts[a].pc = "idle"
  /\ \A b \in DOMAIN attempts : b < a => attempts[b].pc # "idle"

\* the user submits the Buy Now form
BuyNftTransaction(a) ==
  /\ NextInvocation(a)
  /\ Set(a, enter("buy", buyAborts(pickListing(data), isOwner(data, publicKey), data)))
  /\ UNCHANGED Page

\* the user submits the Cancel Listing form
CancelListingTransaction(a) ==
  /\ NextInvocation(a)
  /\ Set(a, enter("cancel", cancelAborts(pickListing(data), isOwner(data, publicKey), data)))
  /\ UNCHANGED Page

\* BuyBuild that reads the NFT from the page as it is now, not as it was when
\* the handler was called
BuyBuild_currentData(a) ==
  /\ attempts[a].pc = "deriving"
  /\ attempts[a].kind = "buy"
  /\ Set(a, built(attempts[a],
                  buyInstructions(attempts[a].ctx.publicKey, data, ctxListing(attempts[a]))))
  /\ UNCHANGED Page

\* buyNftTransaction from its first await to the getRecentBlockhash call
BuyBuild(a) ==
  /\ attempts[a].pc = "deriving"
  /\ attempts[a].kind = "buy"
  /\ Set(a, built(attempts[a],
                  buyInstructions(attempts[a].ctx.publicKey, attempts[a].ctx.data,
                                  ctxListing(attempts[a]))))
  /\ UNCHANGED Page

\* cancelListingTransaction from its first await to the getRecentBlockhash call
CancelBuild(a) ==
  /\ attempts[a].pc = "deriving"
  /\ attempts[a].kind = "cancel"
  /\ Set(a, built(attempts[a],
                  cancelInstructions(attempts[a].ctx.publicKey, attempts[a].ctx.data,
                                     ctxListing(attempts[a]))))
  /\ UNCHANGED Page

GetRecentBlockhashResolves(a) ==
  /\ attempts[a].pc = "blockhash"
  /\ \E bh \in Blockhashes : Set(a, requestSignature(attempts[a], bh))
  /\ UNCHANGED Page

GetRecentBlockhashRejects(a) ==
  /\ attempts[a].pc = "blockhash"
  /\ Set(a, blockhashRejected(attempts[a]))
  /\ UNCHANGED Page

SignTransactionResolves(a) ==
  /\ attempts[a].pc = "signing"
  /\ Set(a, signResolved(attempts[a]))
  /\ UNCHANGED Page

SignTransactionRejects(a) ==
  /\ attempts[a].pc = "signing"
  /\ \E m \in Messages : Set(a, signRejected(attempts[a], m))
  /\ UNCHANGED Page

SendRawTransactionResolves(a) ==
  /\ attempts[a].pc = "submitting"
  /\ Set(a, sendResolved(attempts[a]))
  /\ UNCHANGED Page

SendRawTransactionRejects(a) ==
  /\ attempts[a].pc = "submitting"
  /\ \E m \in Messages : Set(a, sendRejected(attempts[a], m))
  /\ UNCHANGED Page

ConfirmTransactionResolves(a) ==
  /\ attempts[a].pc = "confirming"
  /\ Set(a, confirmResolved(attempts[a]))
  /\ UNCHANGED Page

ConfirmTransactionRejects(a) ==
  /\ attempts[a].pc = "confirming"
  /\ \E m \in Messages : Set(a, confirmRejected(attempts[a], m))
  /\ UNCHANGED Page

\* the refetched result replaces data
RefetchResolves(a) ==
  /\ attempts[a].pc = "refetching"
  /\ \E s \in Results(data) : data' = s
  /\ Set(a, refetchResolved(attempts[a]))
  /\ UNCHANGED <<publicKey, signTransaction>>

RefetchRejects(a) ==
  /\ attempts[a].pc = "refetching"
  /\ \E m \in Messages : Set(a, refetchRejected(attempts[a], m))
  /\ UNCHANGED Page

\* useQuery delivers a result (the first load, or a refetch by another component)
QueryResult ==
  /\ \E s \in Results(data) : data' = s
  /\ UNCHANGED <<publicKey, signTransaction, attempts>>

\* the user picks a wallet adapter, which may or may not support signTransaction
SelectWallet ==
  /\ publicKey = Null
  /\ \E s \in BOOLEAN : signTransaction' = s
  /\ UNCHANGED <<publicKey, data, attempts>>

WalletConnect ==
  /\ publicKey = Null
  /\ publicKey' = Viewer
  /\ UNCHANGED <<signTransaction, data, attempts>>

WalletDisconnect ==
  /\ publicKey # Null
  /\ publicKey' = Null
  /\ UNCHANGED <<signTransaction, data, attempts>>

\* a handler is called
InvokeStep ==
  \/ \E a \in DOMAIN attempts : BuyNftTransaction(a)
  \/ \E a \in DOMAIN attempts : CancelListingTransaction(a)

\* a handler that was called goes on from one of its awaits
AwaitStep ==
  \/ \E a \in DOMAIN attempts : BuyBuild(a)
  \/ \E a \in DOMAIN attempts : CancelBuild(a)
  \/ \E a \in DOMAIN attempts : GetRecentBlockhashResolves(a)
  \/ \E a \in DOMAIN attempts : GetRecentBlockhashRejects(a)
  \/ \E a \in DOMAIN attempts : SignTransactionResolves(a)
  \/ \E a \in DOMAIN attempts : SignTransactionRejects(a)
  \/ \E a \in DOMAIN attempts : SendRawTransactionResolves(a)
  \/ \E a \in DOMAIN attempts : SendRawTransactionRejects(a)
  \/ \E a \in DOMAIN attempts : ConfirmTransactionResolves(a)
  \/ \E a \in DOMAIN attempts : ConfirmTransactionRejects(a)
  \/ \E a \in DOMAIN attempts : RefetchResolves(a)
  \/ \E a \in DOMAIN attempts : RefetchRejects(a)

\* a step of some invocation of a handler
HandlerStep == InvokeStep \/ AwaitStep

\* a step of the wallet or of the query
PageStep ==
  \/ QueryResult
  \/ SelectWallet
  \/ WalletConnect
  \/ WalletDisconnect

Next == HandlerStep \/ PageStep

Spec == Init /\ [][Next]_vars

\* two invocations on a page whose wallet is connected and whose query has
\* delivered a result, the wallet staying as it is
InitTwo ==
  /\ publicKey = Viewer
  /\ signTransaction = TRUE
  /\ data \in { s \in Snapshots : Len(s.nft.creators) = MaxCreators }
  /\ attempts = [a \in {1, 2} |-> Idle]

SpecTwo == InitTwo /\ [][HandlerStep]_vars

(***************************************************************************)
(* The two forms of the page                                               *)
(***************************************************************************)
\* the promise a handler returned is still pending
InFlight(att) ==
  att.pc \in {"deriving", "blockhash", "signing", "submitting", "confirming", "refetching"}

\* formState.isSubmitting of the form of one handler: handleSubmit holds it
\* true from the call of the handler until the promise it returned settles
isSubmitting(kind) ==
  \E a \in DOMAIN attempts : attempts[a].kind = kind /\ InFlight(attempts[a])

\* a Button that can be pressed whatever its loading prop is
ButtonDisabled_never(loading) == FALSE

\* the Button component: a loading button does not submit its form
ButtonDisabled(loading) == loading

\* {listing && !isOwner && (<form onSubmit={buyNowForm.handleSubmit(buyNftTransaction)}>
buyNowFormShown == pickListing(data) # Undefined /\ ~isOwner(data, publicKey)

\* {listing && isOwner && (<form onSubmit={cancelListingForm.handleSubmit(cancelListingTransaction)}>
cancelListingFormShown == pickListing(data) # Undefined /\ isOwner(data, publicKey)

\* the user presses Buy Now
SubmitBuyNowForm(a) ==
  /\ buyNowFormShown
  /\ ~ButtonDisabled(isSubmitting("buy"))
  /\ BuyNftTransaction(a)

\* the user presses Cancel Listing
SubmitCancelListingForm(a) ==
  /\ cancelListingFormShown
  /\ ~ButtonDisabled(isSubmitting("cancel"))
  /\ CancelListingTransaction(a)

\* the user presses the button of one of the two forms
FormStep ==
  \/ \E a \in DOMAIN attempts : SubmitBuyNowForm(a)
  \/ \E a \in DOMAIN attempts : SubmitCancelListingForm(a)

\* the handlers called through the forms only, on the page of InitTwo
NextForms == FormStep \/ AwaitStep

SpecForms == InitTwo /\ [][NextForms]_vars

\* one invocation on the page of InitTwo
InitOne ==
  /\ publicKey = Viewer
  /\ signTransaction = TRUE
  /\ data \in { s \in Snapshots : Len(s.nft.creators) = MaxCreators }
  /\ attempts = [a \in {1} |-> Idle]

\* what the handlers can count on: a derivation, a blockhash request, a
\* signature request, a submission and a refetch each settle, and the handler
\* goes on when they do; nothing in the handlers ends the wait for
\* confirmTransaction, which is left to the network
AwaitsSettle ==
  \A a \in {1} :
    /\ WF_vars(BuyBuild(a) \/ CancelBuild(a))
    /\ WF_vars(GetRecentBlockhashResolves(a) \/ GetRecentBlockhashRejects(a))
    /\ WF_vars(SignTransactionResolves(a) \/ SignTransactionRejects(a))
    /\ WF_vars(SendRawTransactionResolves(a) \/ SendRawTransactionRejects(a))
    /\ WF_vars(RefetchResolves(a) \/ RefetchRejects(a))

SpecFair == InitOne /\ [][HandlerStep]_vars /\ AwaitsSettle

(***************************************************************************)
(* Properties                                                              *)
(***************************************************************************)
Attempts == DOMAIN attempts

InstructionNames(instructions) ==
  [i \in 1..Len(instructions) |-> instructions[i].data.instruction]

\* the handler has built its transaction
Built(att) == att.txt.instructions # <<>>
\* the handler has passed a transaction to the wallet
SignRequested(att) == att.calls.signTransaction > 0

\* C1: every transaction that buyNftTransaction builds, and so every one it
\* passes to signTransaction, holds exactly four instructions: public-buy,
\* print-bid-receipt, execute-sale, print-purchase-receipt, in this order.
C1_BuyFourInstructionsInOrder ==
  \A a \in Attempts :
    LET att == attempts[a] IN
    att.kind = "buy" =>
      /\ Built(att) =>
           InstructionNames(att.txt.instructions) =
             <<"publicBuy", "printBidReceipt", "executeSale", "printPurchaseReceipt">>
      /\ SignRequested(att) =>
           /\ att.signReq.instructions = att.txt.instructions
           /\ Built(att)

\* a Buy transaction is with the wallet for signing
C1_Witness ==
  \E a \in Attempts :
    /\ attempts[a].kind = "buy"
    /\ attempts[a].pc = "signing"
    /\ Len(attempts[a].signReq.instructions) = 4

\* C2: every transaction that cancelListingTransaction passes to
\* signTransaction holds exactly cancel then cancel-listing-receipt, and an
\* attempt whose signing, submission and confirmation all resolved is
\* confirmed and has gone on to the refetch.
C2_CancelTwoInstructionsThenConfirmed ==
  \A a \in Attempts :
    LET att == attempts[a] IN
    att.kind = "cancel" =>
      /\ Built(att) =>
           InstructionNames(att.txt.instructions) = <<"cancel", "cancelListingReceipt">>
      /\ SignRequested(att) =>
           /\ att.signReq.instructions = att.txt.instructions
           /\ Built(att)
      /\ (att.signed /\ att.signature /\ att.pc # "confirming" /\ att.failedAt # "confirm") =>
           /\ att.confirmed
           /\ att.calls.refetch = 1

\* a Cancel attempt was signed, submitted and confirmed
C2_Witness ==
  \E a \in Attempts :
    /\ attempts[a].kind = "cancel"
    /\ InstructionNames(attempts[a].signReq.instructions) = <<"cancel", "cancelListingReceipt">>
    /\ attempts[a].confirmed
    /\ attempts[a].pc = "done"

\* C3: in every Buy transaction the third instruction's keys are the base
\* execute-sale keys as a prefix, then one entry per creator of the snapshot,
\* in snapshot order, each a writable non-signer; its data is the base data.
C3_ExecuteSaleCreatorAccounts ==
  \A a \in Attempts :
    LET att == attempts[a] IN
    (att.kind = "buy" /\ Built(att)) =>
      LET ix == att.txt.instructions[3]
          base == buyExecuteSaleInstruction(att.ctx.publicKey, att.ctx.data, ctxListing(att))
          creators == att.ctx.data.nft.creators
          n == Len(base.keys)
      IN  /\ Len(ix.keys) = n + Len(creators)
          /\ SubSeq(ix.keys, 1, n) = base.keys
          /\ \A i \in 1..Len(creators) :
               /\ ix.keys[n + i].pubkey = NewPublicKey(creators[i].address)
               /\ ix.keys[n + i].isSigner = FALSE
               /\ ix.keys[n + i].isWritable = TRUE
          /\ ix.data = base.data
          /\ ix.data.instruction = "executeSale"

\* a Buy transaction was built for an NFT with the longest creator list
C3_Witness ==
  \E a \in Attempts :
    /\ attempts[a].kind = "buy"
    /\ Built(attempts[a])
    /\ Len(attempts[a].ctx.data.nft.creators) = MaxCreators
    /\ Len(attempts[a].txt.instructions[3].keys) > MaxCreators

\* the invocation ran a handler
Invoked(att) == att.pc # "idle"

\* the invocation made no collaborator call but, perhaps, login
OnlyLogin(att, n) == att.calls = [NoCalls EXCEPT !.login = n]

\* the precondition of Buy is not met in the render the invocation closed over
BuyPreconditionNotMet(att) ==
  \/ ctxListing(att) = Undefined
  \/ ctxIsOwner(att)
  \/ ~att.ctx.data.loaded

\* the wallet of the render the invocation closed over has no account or
\* cannot sign
WalletMissing(att) == att.ctx.publicKey = Null \/ ~att.ctx.signTransaction

\* C4 as stated: Buy with no listing, or by the owner, or without a snapshot
\* builds nothing and calls no collaborator at all, login included, whatever
\* the wallet's connection state.
C4_Original ==
  \A a \in Attempts :
    LET att == attempts[a] IN
    (att.kind = "buy" /\ Invoked(att) /\ BuyPreconditionNotMet(att)) =>
      /\ ~Built(att)
      /\ att.calls = NoCalls
      /\ att.toasts = <<>>

\* C4 as amended: Buy with no listing, or by the owner, or without a snapshot
\* builds nothing, raises no toast and makes no blockhash, signing, send,
\* confirm or refetch call; login is called once when the wallet has no
\* account or no signing function and not at all otherwise.
C4_BuyShortCircuits ==
  \A a \in Attempts :
    LET att == attempts[a] IN
    (att.kind = "buy" /\ Invoked(att) /\ BuyPreconditionNotMet(att)) =>
      /\ ~Built(att)
      /\ att.signReq = NoTxt
      /\ att.toasts = <<>>
      /\ att.pc \in {"login", "aborted"}
      /\ OnlyLogin(att, IF WalletMissing(att) THEN 1 ELSE 0)

\* Buy by the owner of a listed NFT, with a wallet that can sign, has aborted
C4_Witness ==
  \E a \in Attempts :
    /\ attempts[a].kind = "buy"
    /\ attempts[a].pc = "aborted"
    /\ ctxIsOwner(attempts[a])
    /\ ctxListing(attempts[a]) # Undefined
    /\ ~WalletMissing(attempts[a])

\* C5 as stated: a Cancel transaction is built, or a signature requested,
\* only when a snapshot is loaded, a listing exists and the wallet's address
\* is the listing's seller.
C5_Original ==
  \A a \in Attempts :
    LET att == attempts[a] IN
    (att.kind = "cancel" /\ (Built(att) \/ SignRequested(att))) =>
      /\ att.ctx.data.loaded
      /\ ctxListing(att) # Undefined
      /\ WalletAddress(att.ctx.publicKey) = ctxListing(att).seller

\* C6 as stated: Buy with a connected wallet whose address is the listing's
\* seller builds nothing, requests no signature and submits nothing.
C6_Original ==
  \A a \in Attempts :
    LET att == attempts[a] IN
    (/\ att.kind = "buy"
     /\ Invoked(att)
     /\ att.ctx.publicKey # Null
     /\ ctxListing(att) # Undefined
     /\ ToBase58(att.ctx.publicKey) = ctxListing(att).seller) =>
      /\ ~Built(att)
      /\ att.calls.signTransaction = 0
      /\ att.calls.sendRawTransaction = 0

\* C7: a handler invoked while the wallet has no account or no signing
\* function calls login once and does nothing else: no transaction, no
\* blockhash fetch, no signature request, no submission, no refetch, no toast.
C7_WalletMissingCallsLoginOnly ==
  \A a \in Attempts :
    LET att == attempts[a] IN
    (Invoked(att) /\ WalletMissing(att)) =>
      /\ att.pc = "login"
      /\ OnlyLogin(att, 1)
      /\ ~Built(att)
      /\ att.signReq = NoTxt
      /\ att.toasts = <<>>

\* a handler was invoked with a connected account that cannot sign
C7_Witness ==
  \E a \in Attempts :
    /\ attempts[a].pc = "login"
    /\ attempts[a].ctx.publicKey # Null
    /\ ~attempts[a].ctx.signTransaction
    /\ attempts[a].calls.login = 1

FailedStages == {"sign", "submit", "confirm"}

ToastsOfType(att, type) == { i \in 1..Len(att.toasts) : att.toasts[i].type = type }

\* C8: an attempt that failed at signing, submission or confirmation raised
\* exactly one error toast, its last toast, carrying the error's message, and
\* never called refetch; the step on which it fails leaves data unchanged.
C8_FailureToastNoRefetch ==
  /\ [](\A a \in Attempts :
          LET att == attempts[a] IN
          att.failedAt \in FailedStages =>
            /\ att.error \in Messages
            /\ att.toasts # <<>>
            /\ att.toasts[Len(att.toasts)] = Toast("error", att.error)
            /\ Cardinality(ToastsOfType(att, "error")) = 1
            /\ ToastsOfType(att, "success") = {}
            /\ att.calls.refetch = 0)
  /\ [][\A a \in Attempts :
          (attempts[a].failedAt = "none" /\ attempts'[a].failedAt \in FailedStages) =>
            data' = data]_vars

\* an attempt failed at confirmation
C8_Witness ==
  \E a \in Attempts :
    /\ attempts[a].failedAt = "confirm"
    /\ attempts[a].pc = "SubmitFailed"
    /\ attempts[a].signature
    /\ attempts[a].calls.refetch = 0

\* C9 as stated: a finished attempt whose confirmation succeeded called
\* refetch once and raised a success toast and no error toast, whatever
\* refetch did; an attempt whose confirmation did not succeed never called
\* refetch.
C9_Original ==
  \A a \in Attempts :
    LET att == attempts[a] IN
    /\ (att.confirmed /\ att.pc = "done") =>
         /\ att.calls.refetch = 1
         /\ ToastsOfType(att, "success") # {}
         /\ ToastsOfType(att, "error") = {}
    /\ ~att.confirmed => att.calls.refetch = 0

\* C10 as stated: two attempts that failed at different stages with the same
\* error message raised different toasts.
C10_Original ==
  \A a, b \in Attempts :
    (/\ attempts[a].failedAt \in FailedStages
     /\ attempts[b].failedAt \in FailedStages
     /\ attempts[a].failedAt # attempts[b].failedAt
     /\ attempts[a].error = attempts[b].error) =>
      attempts[a].toasts # attempts[b].toasts

\* the handler waits for the wallet or for the network inside one of its trys
InPipeline(att) == att.pc \in {"signing", "submitting", "confirming"}
\* the promise the handler returned was rejected
Uncaught(att) == att.pc = "fault"
\* the handler returned from one of its catch blocks
ReturnedFromCatch(att) == att.pc \in {"SignFailed", "SubmitFailed"}

\* C11: a rejection raised while the handler is signing, submitting or
\* confirming never leaves the handler as an uncaught rejection: no step
\* taken from one of these three waits ends in the uncaught state, and every
\* attempt that failed at one of them returned from a catch block after an
\* error toast that carries the message of the rejection.
C11_PipelineFailuresCaught ==
  /\ [](\A a \in Attempts :
          LET att == attempts[a] IN
          /\ att.failedAt \in FailedStages =>
               /\ ReturnedFromCatch(att)
               /\ att.toasts # <<>>
               /\ att.toasts[Len(att.toasts)] = Toast("error", att.error)
          /\ Uncaught(att) => att.failedAt \notin FailedStages)
  /\ [][\A a \in Attempts : InPipeline(attempts[a]) => ~Uncaught(attempts'[a])]_vars

\* sendRawTransaction rejected and the handler returned after the error toast
C11_Witness ==
  \E a \in Attempts :
    /\ attempts[a].failedAt = "submit"
    /\ attempts[a].calls.sendRawTransaction = 1
    /\ ReturnedFromCatch(attempts[a])
    /\ attempts[a].toasts[Len(attempts[a].toasts)] = Toast("error", attempts[a].error)

\* C12: of one intent at most one attempt is in flight: no two attempts of
\* the same handler are pending together, and no handler is called through
\* its form while an attempt of the same handler is pending.
C12_OneAttemptInFlightPerIntent ==
  /\ [](\A a, b \in Attempts :
          (a # b /\ attempts[a].kind = attempts[b].kind /\ InFlight(attempts[a])) =>
            ~InFlight(attempts[b]))
  /\ [][\A a \in Attempts :
          (attempts[a].pc = "idle" /\ attempts'[a].pc # "idle") =>
            ~isSubmitting(attempts'[a].kind)]_vars

\* a second attempt of an intent is pending after the first one has ended
C12_Witness ==
  \E a, b \in Attempts :
    /\ a < b
    /\ attempts[a].kind = attempts[b].kind
    /\ Invoked(attempts[a])
    /\ ~InFlight(attempts[a])
    /\ InFlight(attempts[b])

\* C13 as stated: every attempt whose transaction was submitted is in the
\* end confirmed or failed, also when the network never reports on the
\* transaction.
C13_Original ==
  \A a \in {1} :
    attempts[a].signature ~> (attempts[a].confirmed \/ attempts[a].pc = "SubmitFailed")

\* the pipeline of the attempt has ended: confirmed, or failed at signing,
\* or failed at submission or confirmation
PipelineTerminal(att) == att.confirmed \/ ReturnedFromCatch(att)

\* what the pipeline has done: its calls to the wallet and to the network
\* for the transaction, and what came of them
PipelineProgress(att) ==
  <<att.calls.signTransaction, att.calls.sendRawTransaction, att.calls.confirmTransaction,
    att.signReq, att.signed, att.signature, att.confirmed, ReturnedFromCatch(att)>>

\* C14: within one attempt signTransaction, sendRawTransaction and
\* confirmTransaction are each called at most once, and once the attempt is
\* confirmed or has failed at signing, submission or confirmation no step
\* changes what the pipeline has done: nothing is signed, submitted or
\* awaited again, and an attempt that returned from a catch does not move.
C14_TerminalIsFinal ==
  /\ [](\A a \in Attempts :
          /\ attempts[a].calls.signTransaction <= 1
          /\ attempts[a].calls.sendRawTransaction <= 1
          /\ attempts[a].calls.confirmTransaction <= 1)
  /\ [][\A a \in Attempts :
          PipelineTerminal(attempts[a]) =>
            /\ PipelineProgress(attempts'[a]) = PipelineProgress(attempts[a])
            /\ ReturnedFromCatch(attempts[a]) => attempts'[a] = attempts[a]]_vars

\* an attempt went through the whole pipeline, each call made once
C14_Witness ==
  \E a \in Attempts :
    /\ attempts[a].pc = "done"
    /\ attempts[a].confirmed
    /\ attempts[a].calls.signTransaction = 1
    /\ attempts[a].calls.sendRawTransaction = 1
    /\ attempts[a].calls.confirmTransaction = 1

\* the bump that deriving this address again returns
BumpOf(address) == FindProgramAddress(address.role, address.seeds)[2]

\* the fields of the instruction data that hold a bump
BumpArgs ==
  {"tradeStateBump", "escrowPaymentBump", "freeTradeStateBump", "programAsSignerBump",
   "receiptBump", "purchaseReceiptBump"}

\* C15: in every Buy transaction each bump of an instruction's data is the
\* bump of the derivation of the account it stands for, which is the account
\* at that place of the instruction's keys: public-buy carries the bumps of
\* the buyer trade state and of the escrow payment account, execute-sale
\* those of the escrow payment account, the free trade state and the
\* program-as-signer, print-bid-receipt that of the bid receipt and
\* print-purchase-receipt that of the purchase receipt; the bump stored with
\* the listing is used nowhere.
C15_BumpsBelongToTheirAccounts ==
  \A a \in Attempts :
    LET att == attempts[a] IN
    (att.kind = "buy" /\ Built(att)) =>
      LET ix == att.txt.instructions
          pda == buyDerived(att.ctx.publicKey, att.ctx.data, ctxListing(att))
          publicBuy == ix[1]
          printBidReceipt == ix[2]
          executeSale == ix[3]
          printPurchaseReceipt == ix[4]
      IN  /\ publicBuy.keys[11].pubkey = pda.buyerTradeState[1]
          /\ publicBuy.data.args.tradeStateBump = BumpOf(publicBuy.keys[11].pubkey)
          /\ publicBuy.keys[7].pubkey = pda.escrowPaymentAccount[1]
          /\ publicBuy.data.args.escrowPaymentBump = BumpOf(publicBuy.keys[7].pubkey)
          /\ executeSale.keys[7].pubkey = pda.escrowPaymentAccount[1]
          /\ executeSale.data.args.escrowPaymentBump = BumpOf(executeSale.keys[7].pubkey)
          /\ executeSale.keys[16].pubkey = pda.freeTradeState[1]
          /\ executeSale.data.args.freeTradeStateBump = BumpOf(executeSale.keys[16].pubkey)
          /\ executeSale.keys[17].pubkey = pda.programAsSigner[1]
          /\ executeSale.data.args.programAsSignerBump = BumpOf(executeSale.keys[17].pubkey)
          /\ printBidReceipt.keys[2].pubkey = pda.bidReceipt[1]
          /\ printBidReceipt.data.args.receiptBump = BumpOf(printBidReceipt.keys[2].pubkey)
          /\ printPurchaseReceipt.keys[2].pubkey = pda.purchaseReceipt[1]
          /\ printPurchaseReceipt.data.args.purchaseReceiptBump =
               BumpOf(printPurchaseReceipt.keys[2].pubkey)
          /\ \A i \in 1..4 : \A f \in DOMAIN ix[i].data.args \cap BumpArgs :
               ix[i].data.args[f] # ctxListing(att).tradeStateBump

\* a Buy transaction was built for a listing that stores a trade state bump
\* and its seven bumps are seven bumps of six different accounts
C15_Witness ==
  \E a \in Attempts :
    /\ attempts[a].kind = "buy"
    /\ Built(attempts[a])
    /\ ctxListing(attempts[a]).tradeStateBump = BumpOf(NewPublicKey(ctxListing(attempts[a]).tradeState))
    /\ LET ix == attempts[a].txt.instructions
       IN  Cardinality({ix[1].data.args.tradeStateBump, ix[1].data.args.escrowPaymentBump,
                        ix[3].data.args.escrowPaymentBump, ix[3].data.args.freeTradeStateBump,
                        ix[3].data.args.programAsSignerBump, ix[2].data.args.receiptBump,
                        ix[4].data.args.purchaseReceiptBump}) = 6

\* the wallet, the marketplace and the NFT an attempt was called with
Inputs(att) == <<att.kind, att.ctx.publicKey, marketplace, att.ctx.data>>

InstructionCount(kind) == IF kind = "buy" THEN 4 ELSE 2

\* C17: the steps of an attempt go forward only. The wallet is asked to sign
\* only a transaction that holds all its instructions, a recent blockhash
\* and the wallet as fee payer; sendRawTransaction is called only after the
\* wallet returned the signed transaction; confirmTransaction only after
\* sendRawTransaction returned a signature; refetch only after the
\* confirmation succeeded; and after a rejected signature request nothing is
\* ever submitted.
C17_StepsGoForward ==
  /\ [](\A a \in Attempts :
          LET att == attempts[a] IN
          /\ SignRequested(att) =>
               /\ Len(att.signReq.instructions) = InstructionCount(att.kind)
               /\ att.signReq.instructions = att.txt.instructions
               /\ att.calls.getRecentBlockhash = 1
               /\ att.signReq.recentBlockhash \in Blockhashes
               /\ att.signReq.feePayer = att.ctx.publicKey
               /\ att.signReq.feePayer # Null
          /\ att.calls.sendRawTransaction > 0 => (SignRequested(att) /\ att.signed)
          /\ att.calls.confirmTransaction > 0 =>
               (att.calls.sendRawTransaction > 0 /\ att.signature)
          /\ att.calls.refetch > 0 => (att.calls.confirmTransaction > 0 /\ att.confirmed)
          /\ att.failedAt = "sign" => (~att.signed /\ att.calls.sendRawTransaction = 0))
  /\ [][\A a \in Attempts :
          attempts[a].failedAt = "sign" =>
            attempts'[a].calls.sendRawTransaction = 0]_vars

\* the wallet rejected a complete transaction and nothing was submitted
C17_Witness ==
  \E a \in Attempts :
    /\ attempts[a].pc = "SignFailed"
    /\ attempts[a].signReq.feePayer = Viewer
    /\ attempts[a].signReq.recentBlockhash \in Blockhashes
    /\ attempts[a].calls.sendRawTransaction = 0

\* the handler awaits a promise of the wallet, of the RPC connection or of
\* the query client
AwaitsCollaborator(att) ==
  att.pc \in {"blockhash", "signing", "submitting", "confirming", "refetching"}

\* the calls a handler has made when it waits at a given await
CallsUpTo(pc) ==
  [login |-> 0,
   getRecentBlockhash |-> 1,
   signTransaction |-> IF pc \in {"signing", "submitting", "confirming", "refetching"} THEN 1 ELSE 0,
   sendRawTransaction |-> IF pc \in {"submitting", "confirming", "refetching"} THEN 1 ELSE 0,
   confirmTransaction |-> IF pc \in {"confirming", "refetching"} THEN 1 ELSE 0,
   refetch |-> IF pc = "refetching" THEN 1 ELSE 0]

\* C18 as stated: an attempt that awaits an external collaborator awaits the
\* signature, the submission or the confirmation.
C18_Original ==
  \A a \in Attempts : AwaitsCollaborator(attempts[a]) => InPipeline(attempts[a])

\* C18, amended: a pending attempt either awaits its local address
\* derivations, having called no collaborator, or awaits one of five
\* collaborator calls, which it makes in this order, each after the one
\* before has resolved: getRecentBlockhash, signTransaction,
\* sendRawTransaction, confirmTransaction, refetch.
C18_FiveCollaboratorWaits ==
  \A a \in Attempts :
    LET att == attempts[a] IN
    /\ InFlight(att) =>
         \/ att.pc = "deriving" /\ att.calls = NoCalls
         \/ AwaitsCollaborator(att)
    /\ AwaitsCollaborator(att) => att.calls = CallsUpTo(att.pc)
    /\ (Invoked(att) /\ ~InFlight(att)) =>
         \E pc \in {"idle", "blockhash", "signing", "submitting", "confirming", "refetching"} :
           att.calls \in {[NoCalls EXCEPT !.login = 1], NoCalls, CallsUpTo(pc)}

\* an attempt waits for the recent blockhash, before anything is signed
C18_Witness ==
  \E a \in Attempts :
    /\ attempts[a].pc = "blockhash"
    /\ Built(attempts[a])
    /\ attempts[a].calls = [NoCalls EXCEPT !.getRecentBlockhash = 1]

\* C19 as stated: on every page the viewer is treated as the owner only if a
\* wallet is connected, the snapshot is loaded and the address of the NFT's
\* owner is the address of the wallet.
C19_Original ==
  isOwner(data, publicKey) =>
    /\ publicKey # Null
    /\ data.loaded
    /\ data.nft.owner.address = ToBase58(publicKey)

\* C20 as stated: in every Cancel transaction that is built the trade state
\* the cancel instruction closes is the trade state of the selected listing,
\* and the receipt the cancel-listing-receipt instruction closes is the
\* receipt of that listing.
C20_Original ==
  \A a \in Attempts :
    LET att == attempts[a] IN
    (att.kind = "cancel" /\ Built(att)) =>
      /\ att.txt.instructions[1].keys[7].pubkey = NewPublicKey(ctxListing(att).tradeState)
      /\ att.txt.instructions[2].keys[1].pubkey = NewPublicKey(ctxListing(att).address)

====
